---- MODULE Spec2Model ----
(***************************************************************************)
(* Model of getevo/pagination (src/pagination.go).                         *)
(*                                                                         *)
(* The Pagination struct is the record p.  New builds it from the request, *)
(* LoadData runs the count query, derives the page metadata and runs the   *)
(* bounded fetch; the two gorm calls are the only points where control     *)
(* leaves the package, so LoadData is cut into steps at exactly those      *)
(* two calls.  GetResponse wraps the result into an outcome.Response.      *)
(*                                                                         *)
(* Spec      starts before any request has been processed.                 *)
(* SpecLoad  starts from a Pagination value whose exported fields Model,   *)
(*           Size, CurrentPage were chosen by the caller, and is used for  *)
(*           statements about LoadData, setPages, setLast and GetOffset    *)
(*           as functions of their receiver.                               *)
(***************************************************************************)
EXTENDS Integers, Sequences, FiniteSets, TLC

\* ------------------------------------------------------------------ bounds
MaxRawLimit == 1
MaxRawPage == 3
MaxRecords == 25
MaxSizeIn == 10
MaxSetMaxSize == 2

\* ------------------------------------------------- constants of the source
MinSize == 10
DefaultMaxSize == 50
StatusOK == 200
StatusError == 500
GenericError == "unable to load data from the database"
JSONContentType == "application/json"

\* ------------------------------------------------------------------ inputs
\* request.Query("limit").Int(): an absent or non-numeric value reads as 0
RawLimits == (-1 .. MaxRawLimit) \cup {5, 10, 20, 1000}
\* request.Query("page").Int()
RawPages == (-1 .. MaxRawPage) \cup {99}
\* the total reported by Model.Count
RecordCounts == (0 .. MaxRecords) \cup {95}
\* arguments a caller passes to SetMaxSize
MaxSizeArgs == {k * MinSize : k \in 0 .. MaxSetMaxSize} \cup {100}
\* errors the data source can report
DbErrors == {"count: connection refused", "find: bad column"}
\* values a caller can give to the receiver fields before LoadData
SizesIn == 0 .. MaxSizeIn
PagesIn == (0 .. MaxRawPage) \cup {99}

VARIABLES
    pc,          \* position of the caller / of LoadData
    p,           \* the Pagination struct
    limit,       \* local variable limit of New
    out,         \* TRUE when an out argument was supplied
    retErr,      \* the error value returned by New / LoadData ("nil" if none)
    response,    \* the outcome.Response last returned by GetResponse
    dbErr,       \* the error the data source reported last ("nil" if none)
    counts,      \* number of count queries issued by the current invocation
    fetches,     \* number of fetch queries issued by the current invocation
    fetchLimit,  \* argument of Model.Limit of the fetch issued
    fetchOffset, \* argument of Model.Offset of the fetch issued
    panicked     \* "no", or the run-time panic that ended the invocation

vars == <<pc, p, limit, out, retErr, response, dbErr, counts, fetches,
          fetchLimit, fetchOffset, panicked>>

\* var p = Pagination{}
Pagination == [Model |-> "nil", Executed |-> FALSE, Success |-> FALSE,
               Error |-> "nil", Records |-> 0, CurrentPage |-> 0,
               Pages |-> 0, Size |-> 0, MaxSize |-> 0, First |-> 0,
               Last |-> 0, Data |-> "nil"]

\* var response outcome.Response (zero value)
NoResponse == [StatusCode |-> 0, ContentType |-> "", Data |-> "nil"]

\* ----------------------------------------------------- methods on the struct
setCurrentPage(q, page) ==
    IF page > 0 THEN [q EXCEPT !.CurrentPage = page]
                ELSE [q EXCEPT !.CurrentPage = 1]

SetMaxSize(q, l) == [q EXCEPT !.MaxSize = l]

\* GetPage writes CurrentPage when it is below 1; GetPage(q) is the receiver
\* after the call and GetPage(q).CurrentPage the value returned.
GetPage(q) ==
    IF q.CurrentPage < 1 THEN [q EXCEPT !.CurrentPage = 1] ELSE q

GetOffset(q) == (GetPage(q).CurrentPage - 1) * q.Size

setLast_NoCap(q) ==
    [GetPage(q) EXCEPT !.Last = GetOffset(q) + q.Size]

setLast(q) ==
    LET q1 == [GetPage(q) EXCEPT !.Last = GetOffset(q) + q.Size]
    IN  IF q1.Last > q1.Records THEN [q1 EXCEPT !.Last = q1.Records] ELSE q1

\* Records % Size and Records / Size panic when Size = 0
setPagesPanics(q) == q.Records # 0 /\ q.Size = 0

setPages_AlwaysRoundUp(q) ==
    IF q.Records = 0
    THEN [q EXCEPT !.Pages = 1]
    ELSE setLast([q EXCEPT !.Pages = (q.Records \div q.Size) + 1])

\* defined where ~setPagesPanics(q)
setPages(q) ==
    IF q.Records = 0
    THEN [q EXCEPT !.Pages = 1]
    ELSE LET res == q.Records % q.Size
             q1 == IF res = 0
                   THEN [q EXCEPT !.Pages = q.Records \div q.Size]
                   ELSE [q EXCEPT !.Pages = (q.Records \div q.Size) + 1]
             q2 == IF q1.Pages = 0 THEN [q1 EXCEPT !.Pages = 1] ELSE q1
         IN  setLast(q2)

\* the local limit of New after its two clamps, and the receiver after them
NewLimit(q, rawLimit) ==
    LET l1 == IF rawLimit < MinSize THEN MinSize ELSE rawLimit
    IN  IF l1 > q.MaxSize
        THEN (IF q.MaxSize = 0 THEN DefaultMaxSize ELSE q.MaxSize)
        ELSE l1

NewMaxSize(q, rawLimit) ==
    LET l1 == IF rawLimit < MinSize THEN MinSize ELSE rawLimit
    IN  IF l1 > q.MaxSize /\ q.MaxSize = 0
        THEN [q EXCEPT !.MaxSize = DefaultMaxSize]
        ELSE q

\* ------------------------------------------------------------------ states
AtRest == {"idle", "ready", "count_failed", "fetch_failed", "done"}
Held == {"ready", "count_failed", "fetch_failed", "done"}

Init ==
    /\ pc = "idle"
    /\ p = Pagination
    /\ limit = 0
    /\ out = FALSE
    /\ retErr = "nil"
    /\ response = NoResponse
    /\ dbErr = "nil"
    /\ counts = 0
    /\ fetches = 0
    /\ fetchLimit = 0
    /\ fetchOffset = 0
    /\ panicked = "no"

\* a Pagination value prepared by the caller through its exported fields
InitLoad ==
    /\ pc = "ready"
    /\ \E m \in {"nil", "db"}, s \in SizesIn, c \in PagesIn :
          p = [Pagination EXCEPT !.Model = m, !.Size = s, !.CurrentPage = c]
    /\ limit = 0
    /\ out = FALSE
    /\ retErr = "nil"
    /\ response = NoResponse
    /\ dbErr = "nil"
    /\ counts = 0
    /\ fetches = 0
    /\ fetchLimit = 0
    /\ fetchOffset = 0
    /\ panicked = "no"

\* ----------------------------------------------------------------- actions
\* New up to its call of LoadData (out given) or its return (no out).
\* The model argument is not stored and limit is not written to p.Size.
New(rawLimit, rawPage, hasOut) ==
    /\ pc \in AtRest
    /\ LET p0 == Pagination
           p1 == NewMaxSize(p0, rawLimit)
           page == IF rawPage < 1 THEN 1 ELSE rawPage
       IN  /\ limit' = NewLimit(p0, rawLimit)
           /\ p' = setCurrentPage(p1, page)
    /\ out' = hasOut
    /\ pc' = IF hasOut THEN "LoadData" ELSE "ready"
    /\ retErr' = "nil"
    /\ dbErr' = "nil"
    /\ counts' = 0
    /\ fetches' = 0
    /\ fetchLimit' = 0
    /\ fetchOffset' = 0
    /\ UNCHANGED <<response, panicked>>

\* the caller stores a data source in the exported field Model
AssignModel ==
    /\ pc = "ready"
    /\ p.Model = "nil"
    /\ p' = [p EXCEPT !.Model = "db"]
    /\ UNCHANGED <<pc, limit, out, retErr, response, dbErr, counts, fetches,
                   fetchLimit, fetchOffset, panicked>>

CallSetMaxSize(l) ==
    /\ pc = "ready"
    /\ p.MaxSize # l
    /\ p' = SetMaxSize(p, l)
    /\ UNCHANGED <<pc, limit, out, retErr, response, dbErr, counts, fetches,
                   fetchLimit, fetchOffset, panicked>>

\* the caller calls p.LoadData(out) on a value New returned without loading
CallLoadData ==
    /\ pc = "ready"
    /\ pc' = "LoadData"
    /\ out' = TRUE
    /\ retErr' = "nil"
    /\ dbErr' = "nil"
    /\ counts' = 0
    /\ fetches' = 0
    /\ fetchLimit' = 0
    /\ fetchOffset' = 0
    /\ UNCHANGED <<p, limit, response, panicked>>

\* p.Model.Count(&total) on a nil *gorm.DB
LoadData_NilModel ==
    /\ pc = "LoadData"
    /\ p.Model = "nil"
    /\ pc' = "panic"
    /\ panicked' = "nil pointer dereference"
    /\ UNCHANGED <<p, limit, out, retErr, response, dbErr, counts, fetches,
                   fetchLimit, fetchOffset>>

\* p.Model.Count(&total) is issued
LoadData_Count ==
    /\ pc = "LoadData"
    /\ p.Model # "nil"
    /\ counts' = counts + 1
    /\ pc' = "counting"
    /\ UNCHANGED <<p, limit, out, retErr, response, dbErr, fetches,
                   fetchLimit, fetchOffset, panicked>>

LoadData_CountFailed_SetsError(e) ==
    /\ pc = "counting"
    /\ dbErr' = e
    /\ retErr' = e
    /\ p' = [p EXCEPT !.Error = GenericError]
    /\ pc' = "count_failed"
    /\ UNCHANGED <<limit, out, response, counts, fetches, fetchLimit,
                   fetchOffset, panicked>>

\* the count returns an error: return p, err
LoadData_CountFailed(e) ==
    /\ pc = "counting"
    /\ dbErr' = e
    /\ retErr' = e
    /\ pc' = "count_failed"
    /\ UNCHANGED <<p, limit, out, response, counts, fetches, fetchLimit,
                   fetchOffset, panicked>>

\* the count returns total: p.Records = int(total)
LoadData_Counted(total) ==
    /\ pc = "counting"
    /\ p' = [p EXCEPT !.Records = total]
    /\ pc' = "counted"
    /\ UNCHANGED <<limit, out, retErr, response, dbErr, counts, fetches,
                   fetchLimit, fetchOffset, panicked>>

\* p.setPages() with Size = 0 and Records # 0
LoadData_DivideByZero ==
    /\ pc = "counted"
    /\ setPagesPanics(p)
    /\ pc' = "panic"
    /\ panicked' = "integer divide by zero"
    /\ UNCHANGED <<p, limit, out, retErr, response, dbErr, counts, fetches,
                   fetchLimit, fetchOffset>>

\* p.setPages()
LoadData_setPages ==
    /\ pc = "counted"
    /\ ~setPagesPanics(p)
    /\ p' = setPages(p)
    /\ pc' = "paged"
    /\ UNCHANGED <<limit, out, retErr, response, dbErr, counts, fetches,
                   fetchLimit, fetchOffset, panicked>>

\* p.Model.Limit(p.Size).Offset(p.GetOffset()).Find(out) is issued
LoadData_Find ==
    /\ pc = "paged"
    /\ fetchLimit' = p.Size
    /\ fetchOffset' = GetOffset(p)
    /\ p' = GetPage(p)
    /\ fetches' = fetches + 1
    /\ pc' = "fetching"
    /\ UNCHANGED <<limit, out, retErr, response, dbErr, counts, panicked>>

LoadData_FindFailed_LeaksError(e) ==
    /\ pc = "fetching"
    /\ dbErr' = e
    /\ retErr' = e
    /\ p' = [p EXCEPT !.Error = e]
    /\ pc' = "fetch_failed"
    /\ UNCHANGED <<limit, out, response, counts, fetches, fetchLimit,
                   fetchOffset, panicked>>

\* the fetch returns an error
LoadData_FindFailed(e) ==
    /\ pc = "fetching"
    /\ dbErr' = e
    /\ retErr' = e
    /\ p' = [p EXCEPT !.Error = GenericError]
    /\ pc' = "fetch_failed"
    /\ UNCHANGED <<limit, out, response, counts, fetches, fetchLimit,
                   fetchOffset, panicked>>

\* the fetch returns without error
LoadData_FindOk ==
    /\ pc = "fetching"
    /\ p' = [p EXCEPT !.Success = TRUE, !.Data = "out"]
    /\ retErr' = "nil"
    /\ pc' = "done"
    /\ UNCHANGED <<limit, out, response, dbErr, counts, fetches, fetchLimit,
                   fetchOffset, panicked>>

GetResponse_Always200 ==
    /\ pc \in Held
    /\ response' = [StatusCode |-> StatusOK,
                    ContentType |-> JSONContentType, Data |-> "p"]
    /\ UNCHANGED <<pc, p, limit, out, retErr, dbErr, counts, fetches,
                   fetchLimit, fetchOffset, panicked>>

GetResponse ==
    /\ pc \in Held
    /\ response' = [StatusCode |-> IF p.Success THEN StatusOK ELSE StatusError,
                    ContentType |-> JSONContentType, Data |-> "p"]
    /\ UNCHANGED <<pc, p, limit, out, retErr, dbErr, counts, fetches,
                   fetchLimit, fetchOffset, panicked>>

Next ==
    \/ \E rawLimit \in RawLimits, rawPage \in RawPages, hasOut \in BOOLEAN :
          New(rawLimit, rawPage, hasOut)
    \/ AssignModel
    \/ \E l \in MaxSizeArgs : CallSetMaxSize(l)
    \/ CallLoadData
    \/ LoadData_NilModel
    \/ LoadData_Count
    \/ \E e \in DbErrors : LoadData_CountFailed(e)
    \/ \E total \in RecordCounts : LoadData_Counted(total)
    \/ LoadData_DivideByZero
    \/ LoadData_setPages
    \/ LoadData_Find
    \/ \E e \in DbErrors : LoadData_FindFailed(e)
    \/ LoadData_FindOk
    \/ GetResponse

Spec == Init /\ [][Next]_vars

SpecLoad == InitLoad /\ [][Next]_vars

\* ------------------------------------------------------------- properties
\* C1: whenever the count query or the fetch query is in flight, Size lies
\* in [MinSize, effectiveMaxSize], effectiveMaxSize being MaxSize when it is
\* positive and DefaultMaxSize otherwise.
C1_SizeClampedAtQueries ==
    pc \in {"counting", "fetching"} =>
        /\ p.Size >= MinSize
        /\ p.Size <= (IF p.MaxSize > 0 THEN p.MaxSize ELSE DefaultMaxSize)

\* C2: once the page metadata is computed with Size >= 1, Pages is 1 for
\* zero records and otherwise the ceiling of Records / Size (the least
\* number of pages of Size rows that hold Records rows); Pages >= 1.
C2_PagesIsCeiling ==
    (pc \in {"paged", "fetching", "fetch_failed", "done"} /\ p.Size >= 1) =>
        /\ p.Pages >= 1
        /\ p.Records = 0 => p.Pages = 1
        /\ p.Records > 0 =>
              /\ p.Pages * p.Size >= p.Records
              /\ (p.Pages - 1) * p.Size < p.Records
              /\ (p.Records % p.Size = 0 => p.Pages * p.Size = p.Records)

C2_Witness ==
    /\ pc = "done"
    /\ p.Records = 95
    /\ p.Size = 10
    /\ p.Pages = 10

\* C3: once the fetch has been issued, CurrentPage lies in [1, Pages] and
\* the fetch used the offset of that page.
C3_CurrentPageWithinPages ==
    pc \in {"fetching", "fetch_failed", "done"} =>
        /\ p.CurrentPage >= 1
        /\ p.CurrentPage <= p.Pages
        /\ fetchOffset = (p.CurrentPage - 1) * p.Size

\* C4: in every final state of an invocation whose count succeeded, the
\* offset is (CurrentPage - 1) * Size and not negative, Last is the smaller
\* of offset + Size and Records, and Last <= Records.
C4_OffsetAndLast ==
    pc \in {"fetch_failed", "done"} =>
        /\ fetchOffset = (p.CurrentPage - 1) * p.Size
        /\ fetchOffset >= 0
        /\ p.Last = (IF fetchOffset + p.Size < p.Records
                     THEN fetchOffset + p.Size ELSE p.Records)
        /\ p.Last <= p.Records

C4_Witness ==
    /\ pc = "done"
    /\ p.Records = 25
    /\ p.Size = 10
    /\ p.CurrentPage = 3
    /\ fetchOffset = 20
    /\ p.Last = 25

\* C5: after a failed count, Success is false, the error returned is the
\* error the count reported, the Error field is unset, no fetch was issued,
\* and Records, Pages, Last and Data still have their initial values.
C5_CountFailure ==
    pc = "count_failed" =>
        /\ ~p.Success
        /\ retErr \in DbErrors
        /\ retErr = dbErr
        /\ p.Error = "nil"
        /\ fetches = 0
        /\ p.Records = Pagination.Records
        /\ p.Pages = Pagination.Pages
        /\ p.Last = Pagination.Last
        /\ p.Data = Pagination.Data

C5_Witness ==
    /\ pc = "count_failed"
    /\ counts = 1
    /\ retErr \in DbErrors

\* C6: after a failed fetch, Success is false, the Error field holds the
\* fixed generic message and not the text of the underlying error, the error
\* returned is the error the fetch reported, and Data is not populated; the
\* Error field is set in no other state.
C6_FetchFailure ==
    /\ pc = "fetch_failed" =>
          /\ ~p.Success
          /\ p.Error = GenericError
          /\ p.Error # dbErr
          /\ retErr \in DbErrors
          /\ retErr = dbErr
          /\ p.Data = "nil"
    /\ p.Error # "nil" => pc = "fetch_failed"

C6_Witness ==
    /\ pc = "fetch_failed"
    /\ fetches = 1
    /\ p.Error = GenericError
    /\ retErr \in DbErrors

\* C7: in every result that completed a fetch, First is the offset of the
\* page served, (CurrentPage - 1) * Size, and First <= Last.
C7_FirstIsOffset ==
    pc = "done" =>
        /\ p.First = fetchOffset
        /\ p.First = (p.CurrentPage - 1) * p.Size
        /\ p.First <= p.Last

\* C8: every call of GetResponse that yields a new response yields status
\* 200 exactly when Success is true and 500 otherwise, content type
\* application/json and the result as data, and changes no field of the
\* result.
C8_GetResponse ==
    [][response' # response =>
          /\ (response'.StatusCode = StatusOK) <=> p.Success
          /\ (response'.StatusCode = StatusError) <=> ~p.Success
          /\ response'.ContentType = JSONContentType
          /\ response'.Data = "p"
          /\ p' = p]_vars

C8_Witness ==
    /\ pc = "done"
    /\ p.Success
    /\ response.StatusCode = StatusOK
    /\ response.Data = "p"

\* C9: within one invocation exactly one count is issued before anything
\* else, at most one fetch is issued and only after a successful count and
\* the computation of the page metadata, with limit Size and offset
\* (CurrentPage - 1) * Size; Success is true only after the fetch returned
\* without error; the invocation ends in Failed or Done and in no other way.
C9_QueryOrder ==
    /\ counts <= 1
    /\ fetches <= 1
    /\ pc \in {"counting", "counted", "paged", "fetching", "count_failed",
               "fetch_failed", "done"} => counts = 1
    /\ fetches = 1 =>
          /\ counts = 1
          /\ pc \in {"fetching", "fetch_failed", "done"}
          /\ p.Pages >= 1
          /\ fetchLimit = p.Size
          /\ fetchOffset = (p.CurrentPage - 1) * p.Size
    /\ p.Success => pc = "done" /\ fetches = 1 /\ retErr = "nil"
    /\ pc # "panic"

\* C10: when LoadData issues the count the result is bound to a data source,
\* and when the page count is computed Size >= 1, so that Records % Size and
\* Records / Size are defined.
C10_SourceBoundAndSizePositive ==
    /\ pc \in {"LoadData", "counting"} => p.Model # "nil"
    /\ pc = "counted" => p.Size >= 1
    /\ panicked # "integer divide by zero"

====
